---- MODULE Spec2Model ----
(***************************************************************************)
(* Model of nexrad_sample.py: the script fetches one NEXRAD volume scan    *)
(* from S3, decodes it with pyart, and masks the sweep-0 reflectivity with *)
(* three threshold tests on reflectivity, Zdr and RhoHV (cell In[5]).      *)
(*                                                                         *)
(* Arrays are numpy masked arrays: a shape <<rays, gates>>, the underlying *)
(* data and a boolean mask of the same shape (TRUE = the cell has no       *)
(* value).  Measurements are fixed-point integers in hundredths of their   *)
(* unit (20 dBZ = 2000, 2.3 dB = 230, 0.95 = 95).                          *)
(***************************************************************************)
EXTENDS Integers, Sequences, FiniteSets, TLC

VARIABLES
    pc,           \* the statement of the script that runs next
    err,          \* the exception that ended the run, "none" while it runs
    s3key,        \* line 45: "unset", "None" (no such key) or "Key"
    localfile,    \* line 56: "unset", "empty" or "archive" (the downloaded bytes)
    radar,        \* line 58: the decoded sweep-0 fields of the volume
    refl_grid,    \* line 98
    rhohv_grid,   \* line 100
    zdr_grid,     \* line 101
    reflow,       \* line 104
    zdrhigh,      \* line 105
    rhohvlow,     \* line 106
    notweather,   \* line 107
    qcrefl_grid   \* line 110

vars == <<pc, err, s3key, localfile, radar, refl_grid, rhohv_grid, zdr_grid,
          reflow, zdrhigh, rhohvlow, notweather, qcrefl_grid>>

grids == <<refl_grid, rhohv_grid, zdr_grid>>
masks == <<reflow, zdrhigh, rhohvlow, notweather>>

----------------------------------------------------------------------------
(* Bounds of the model and constants of the script *)

MaxRays == 2
MaxGates == 2

ReflThreshold == 2000
ZdrThreshold == 230
RhohvThreshold == 95

----------------------------------------------------------------------------
(* Arrays *)

Idx(shape) == (1..shape[1]) \X (1..shape[2])

\* a name the script has not assigned yet
NoArray == [shape |-> <<0, 0>>, data |-> [p \in {} |-> 0], mask |-> [p \in {} |-> FALSE]]

Cell(v, m) == [v |-> v, m |-> m]

\* the cells a decoded field can hold: values on both sides of the test's
\* threshold and exactly on it, and a cell without a value (masked)
ReflCells == << Cell(ReflThreshold, FALSE), Cell(ReflThreshold - 1, FALSE),
                Cell(ReflThreshold, TRUE) >>
ZdrCells == << Cell(ZdrThreshold, FALSE), Cell(ZdrThreshold + 1, FALSE),
               Cell(0 - ZdrThreshold, FALSE), Cell(0 - ZdrThreshold - 1, FALSE),
               Cell(0, TRUE) >>
RhohvCells == << Cell(RhohvThreshold, FALSE), Cell(RhohvThreshold - 1, FALSE),
                 Cell(RhohvThreshold, TRUE) >>
BoolCells == << Cell(FALSE, FALSE), Cell(TRUE, FALSE), Cell(FALSE, TRUE) >>

Shapes == (1..MaxRays) \X (1..MaxGates)

\* the array of the given shape whose cells, in row-major order, run
\* through cells cyclically from position off
Grid(cells, off, shape) ==
    LET at(p) == cells[((off + (p[1] - 1) * shape[2] + (p[2] - 1)) % Len(cells)) + 1]
    IN [shape |-> shape,
        data |-> [p \in Idx(shape) |-> at(p).v],
        mask |-> [p \in Idx(shape) |-> at(p).m]]

Grids(cells) == { Grid(cells, off, shape) : off \in 0..(Len(cells) - 1), shape \in Shapes }

\* numpy broadcasting of two 2-D shapes
broadcastable(s, t) == \A k \in 1..2 : s[k] = t[k] \/ s[k] = 1 \/ t[k] = 1
broadcast_shape(s, t) ==
    << IF s[1] >= t[1] THEN s[1] ELSE t[1], IF s[2] >= t[2] THEN s[2] ELSE t[2] >>
bidx(p, s) == << IF s[1] = 1 THEN 1 ELSE p[1], IF s[2] = 1 THEN 1 ELSE p[2] >>

\* ufuncs on masked arrays: the result is computed on the underlying data
\* and carries the union of the masks of its inputs
less_equal(a, c) ==
    [shape |-> a.shape, data |-> [p \in Idx(a.shape) |-> a.data[p] <= c], mask |-> a.mask]

less(a, c) ==
    [shape |-> a.shape, data |-> [p \in Idx(a.shape) |-> a.data[p] < c], mask |-> a.mask]

greater(a, c) ==
    [shape |-> a.shape, data |-> [p \in Idx(a.shape) |-> a.data[p] > c], mask |-> a.mask]

identity(a) == a

abs(a) ==
    [a EXCEPT !.data = [p \in Idx(a.shape) |->
                           IF a.data[p] < 0 THEN 0 - a.data[p] ELSE a.data[p]]]

logical_or(a, b) ==
    LET s == broadcast_shape(a.shape, b.shape)
    IN [shape |-> s,
        data |-> [p \in Idx(s) |-> a.data[bidx(p, a.shape)] \/ b.data[bidx(p, b.shape)]],
        mask |-> [p \in Idx(s) |-> a.mask[bidx(p, a.shape)] \/ b.mask[bidx(p, b.shape)]]]

\* numpy.ma helpers used by masked_where
filled(a, fill) == [p \in Idx(a.shape) |-> IF a.mask[p] THEN fill ELSE a.data[p]]
make_mask_unfilled(m) == m.data
make_mask(m) == filled(m, TRUE)
mask_or(m1, m2) == [p \in DOMAIN m1 |-> m1[p] \/ m2[p]]

\* ma.masked_where(condition, a, copy): the returned array, and the argument
\* array a as the call leaves it
masked_where_inplace(condition, a, copy) ==
    LET m == mask_or(make_mask(condition), a.mask)
    IN [result |-> [a EXCEPT !.mask = m], a |-> [a EXCEPT !.mask = m]]

masked_where_nomaskor(condition, a, copy) ==
    [result |-> [a EXCEPT !.mask = make_mask(condition)], a |-> a]

masked_where(condition, a, copy) ==
    LET m == mask_or(make_mask(condition), a.mask)
    IN [result |-> [a EXCEPT !.mask = m],
        a |-> IF copy THEN a ELSE [a EXCEPT !.mask = m]]

\* masked_where raises IndexError on a condition of another shape
inconsistent_shape(condition, a) == condition.shape # a.shape

----------------------------------------------------------------------------
(* The radar volume *)

NoRadar == [reflectivity |-> NoArray, differential_reflectivity |-> NoArray,
            cross_correlation_ratio |-> NoArray]

\* the volumes read_nexrad_archive can return: every field of a sweep has
\* the sweep's shape
Radars ==
    { [reflectivity |-> Grid(ReflCells, ro, shape),
       differential_reflectivity |-> Grid(ZdrCells, zo, shape),
       cross_correlation_ratio |-> Grid(RhohvCells, co, shape)] :
        ro \in 0..(Len(ReflCells) - 1), zo \in 0..(Len(ZdrCells) - 1),
        co \in 0..(Len(RhohvCells) - 1), shape \in Shapes }

get_field(r, field_name) == r[field_name]

----------------------------------------------------------------------------
(* The script *)

Init ==
    /\ pc = "connect_s3"
    /\ err = "none"
    /\ s3key = "unset"
    /\ localfile = "unset"
    /\ radar = NoRadar
    /\ refl_grid = NoArray /\ rhohv_grid = NoArray /\ zdr_grid = NoArray
    /\ reflow = NoArray /\ zdrhigh = NoArray /\ rhohvlow = NoArray
    /\ notweather = NoArray
    /\ qcrefl_grid = NoArray

\* an uncaught exception ends the script
Raise(e) == pc' = "failed" /\ err' = e

\* line 43
ConnectS3 ==
    /\ pc = "connect_s3"
    /\ \E ok \in BOOLEAN :
        IF ok THEN pc' = "get_bucket" /\ err' = err ELSE Raise("NoAuthHandlerFound")
    /\ UNCHANGED <<s3key, localfile, radar, grids, masks, qcrefl_grid>>

\* line 44
GetBucket ==
    /\ pc = "get_bucket"
    /\ \E ok \in BOOLEAN :
        IF ok THEN pc' = "get_key" /\ err' = err ELSE Raise("S3ResponseError")
    /\ UNCHANGED <<s3key, localfile, radar, grids, masks, qcrefl_grid>>

\* lines 45-46: get_key returns None for a key that does not exist
GetKey ==
    /\ pc = "get_key"
    /\ \E r \in {"Key", "None", "S3ResponseError"} :
        IF r = "S3ResponseError"
        THEN Raise(r) /\ s3key' = s3key
        ELSE pc' = "download" /\ err' = err /\ s3key' = r
    /\ UNCHANGED <<localfile, radar, grids, masks, qcrefl_grid>>

\* lines 56-57: the temporary file is created empty, then s3key, if it is
\* a key, downloads into it
DownloadSwallow ==
    /\ pc = "download"
    /\ \E ok \in BOOLEAN :
         localfile' = IF s3key = "Key" /\ ok THEN "archive" ELSE "empty"
    /\ pc' = "read_nexrad_archive"
    /\ UNCHANGED <<err, s3key, radar, grids, masks, qcrefl_grid>>

Download ==
    /\ pc = "download"
    /\ IF s3key = "None"
       THEN Raise("AttributeError") /\ localfile' = "empty"
       ELSE \E ok \in BOOLEAN :
              IF ok THEN pc' = "read_nexrad_archive" /\ err' = err /\ localfile' = "archive"
              ELSE Raise("S3ResponseError") /\ localfile' = "empty"
    /\ UNCHANGED <<s3key, radar, grids, masks, qcrefl_grid>>

\* line 58: the archive decodes to a volume, or the reader raises
read_nexrad_archive(file) == IF file = "archive" THEN Radars ELSE {}

Decode ==
    /\ pc = "read_nexrad_archive"
    /\ \/ \E r \in read_nexrad_archive(localfile) :
            radar' = r /\ pc' = "display" /\ err' = err
       \/ Raise("IOError") /\ radar' = radar
    /\ UNCHANGED <<s3key, localfile, grids, masks, qcrefl_grid>>

\* lines 68-89
Display ==
    /\ pc = "display"
    /\ pc' = "get_field"
    /\ UNCHANGED <<err, s3key, localfile, radar, grids, masks, qcrefl_grid>>

\* lines 98-101
GetFields ==
    /\ pc = "get_field"
    /\ refl_grid' = get_field(radar, "reflectivity")
    /\ rhohv_grid' = get_field(radar, "cross_correlation_ratio")
    /\ zdr_grid' = get_field(radar, "differential_reflectivity")
    /\ pc' = "computeMask"
    /\ UNCHANGED <<err, s3key, localfile, radar, masks, qcrefl_grid>>

\* lines 104-107; a ufunc raises ValueError on shapes that do not broadcast
ComputeMask ==
    /\ pc = "computeMask"
    /\ reflow' = less(refl_grid, ReflThreshold)
    /\ zdrhigh' = greater(abs(zdr_grid), ZdrThreshold)
    /\ rhohvlow' = less(rhohv_grid, RhohvThreshold)
    /\ IF /\ broadcastable(zdr_grid.shape, rhohv_grid.shape)
          /\ broadcastable(refl_grid.shape,
                           broadcast_shape(zdr_grid.shape, rhohv_grid.shape))
       THEN /\ notweather' = logical_or(reflow', logical_or(zdrhigh', rhohvlow'))
            /\ pc' = "applyMask"
            /\ err' = err
       ELSE /\ Raise("ValueError")
            /\ notweather' = notweather
    /\ UNCHANGED <<s3key, localfile, radar, grids, qcrefl_grid>>

\* line 110
ApplyMaskShrink ==
    /\ pc = "applyMask"
    /\ IF inconsistent_shape(notweather, refl_grid)
       THEN IF \E p \in Idx(notweather.shape) : make_mask(notweather)[p]
            THEN /\ Raise("IndexError")
                 /\ UNCHANGED <<refl_grid, qcrefl_grid>>
            ELSE /\ qcrefl_grid' = refl_grid
                 /\ pc' = "plot_qc"
                 /\ UNCHANGED <<err, refl_grid>>
       ELSE LET r == masked_where(notweather, refl_grid, TRUE)
            IN /\ qcrefl_grid' = r.result
               /\ refl_grid' = r.a
               /\ pc' = "plot_qc"
               /\ err' = err
    /\ UNCHANGED <<s3key, localfile, radar, rhohv_grid, zdr_grid, masks>>

ApplyMaskUnchecked ==
    /\ pc = "applyMask"
    /\ qcrefl_grid' = IF inconsistent_shape(notweather, refl_grid)
                      THEN refl_grid
                      ELSE masked_where(notweather, refl_grid, TRUE).result
    /\ pc' = "plot_qc"
    /\ UNCHANGED <<err, s3key, localfile, radar, grids, masks>>

ApplyMask ==
    /\ pc = "applyMask"
    /\ IF inconsistent_shape(notweather, refl_grid)
       THEN /\ Raise("IndexError")
            /\ UNCHANGED <<refl_grid, qcrefl_grid>>
       ELSE LET r == masked_where(notweather, refl_grid, TRUE)
            IN /\ qcrefl_grid' = r.result
               /\ refl_grid' = r.a
               /\ pc' = "plot_qc"
               /\ err' = err
    /\ UNCHANGED <<s3key, localfile, radar, rhohv_grid, zdr_grid, masks>>

\* lines 117-136
PlotQC ==
    /\ pc = "plot_qc"
    /\ pc' = "done"
    /\ UNCHANGED <<err, s3key, localfile, radar, grids, masks, qcrefl_grid>>

Next ==
    \/ ConnectS3 \/ GetBucket \/ GetKey \/ Download \/ Decode \/ Display
    \/ GetFields \/ ComputeMask \/ ApplyMask \/ PlotQC

Spec == Init /\ [][Next]_vars

----------------------------------------------------------------------------
(* The quality-control cell on arbitrary arrays: three grids whose shapes  *)
(* are chosen independently, or a grid and a mask given to masked_where    *)

InitComputeMask ==
    /\ pc = "computeMask"
    /\ refl_grid \in Grids(ReflCells)
    /\ zdr_grid \in Grids(ZdrCells)
    /\ rhohv_grid \in Grids(RhohvCells)
    /\ notweather = NoArray

InitApplyMask ==
    /\ pc = "applyMask"
    /\ refl_grid \in Grids(ReflCells)
    /\ zdr_grid = NoArray
    /\ rhohv_grid = NoArray
    /\ notweather \in Grids(BoolCells)

InitQC ==
    /\ err = "none"
    /\ s3key = "Key"
    /\ localfile = "archive"
    /\ radar = NoRadar
    /\ reflow = NoArray /\ zdrhigh = NoArray /\ rhohvlow = NoArray
    /\ qcrefl_grid = NoArray
    /\ (InitComputeMask \/ InitApplyMask)

NextQC == ComputeMask \/ ApplyMask

SpecQC == InitQC /\ [][NextQC]_vars

----------------------------------------------------------------------------
(* Properties *)

HasValue(a, p) == ~a.mask[p]

\* cell p of notweather as masked_where reads it: flagged by a test, or
\* without a value
MaskAt(p) == notweather.mask[p] \/ notweather.data[p]

\* lines 104-107 have run and produced notweather
MaskComputed == reflow # NoArray /\ notweather # NoArray

SameShape == refl_grid.shape = zdr_grid.shape /\ zdr_grid.shape = rhohv_grid.shape

ReflFails(p) == HasValue(refl_grid, p) /\ refl_grid.data[p] < ReflThreshold
ZdrFails(p) ==
    /\ HasValue(zdr_grid, p)
    /\ (zdr_grid.data[p] > ZdrThreshold \/ zdr_grid.data[p] < 0 - ZdrThreshold)
RhohvFails(p) == HasValue(rhohv_grid, p) /\ rhohv_grid.data[p] < RhohvThreshold

PassesAll(p) ==
    /\ HasValue(refl_grid, p) /\ refl_grid.data[p] >= ReflThreshold
    /\ HasValue(zdr_grid, p)
    /\ zdr_grid.data[p] <= ZdrThreshold /\ zdr_grid.data[p] >= 0 - ZdrThreshold
    /\ HasValue(rhohv_grid, p) /\ rhohv_grid.data[p] >= RhohvThreshold

MaskingStages == {"computeMask", "applyMask", "plot_qc", "done"}

\* C1: on three grids of one shape, every cell that fails at least one of
\* the three tests (reflectivity < 20, |Zdr| > 2.3, RhoHV < 0.95) is true in
\* the mask, whatever the other two inputs hold at that cell.
C1_FailedTestSetsMask ==
    (MaskComputed /\ SameShape) =>
        \A p \in Idx(refl_grid.shape) :
            (ReflFails(p) \/ ZdrFails(p) \/ RhohvFails(p)) => MaskAt(p)

\* a cell that fails the Zdr test alone, on the negative side, is flagged
C1_Witness ==
    /\ MaskComputed /\ SameShape
    /\ \E p \in Idx(refl_grid.shape) :
        /\ ZdrFails(p) /\ zdr_grid.data[p] < 0
        /\ ~ReflFails(p) /\ HasValue(refl_grid, p)
        /\ ~RhohvFails(p) /\ HasValue(rhohv_grid, p)
        /\ MaskAt(p)

\* C2: a cell that fails none of the three tests (values exactly on a
\* threshold included) is false in the mask.
C2_PassingCellUnmasked ==
    (MaskComputed /\ SameShape) =>
        \A p \in Idx(refl_grid.shape) :
            PassesAll(p) => (~notweather.data[p] /\ ~notweather.mask[p])

\* a cell exactly on all three thresholds (Zdr on -2.3) is not flagged
C2_Witness ==
    /\ MaskComputed /\ SameShape
    /\ \E p \in Idx(refl_grid.shape) :
        /\ HasValue(refl_grid, p) /\ refl_grid.data[p] = ReflThreshold
        /\ HasValue(zdr_grid, p) /\ zdr_grid.data[p] = 0 - ZdrThreshold
        /\ HasValue(rhohv_grid, p) /\ rhohv_grid.data[p] = RhohvThreshold
        /\ ~MaskAt(p)

\* C3: when the three grids do not all have one shape, lines 104-107 fail
\* with a shape error and produce no mask.
C3_ShapeMismatchFails ==
    (reflow # NoArray /\ ~SameShape) => (err = "ValueError" /\ notweather = NoArray)

\* C4: in the masked grid every cell whose mask is true has no value and
\* every cell whose mask is false is the reflectivity cell, unchanged.
C4_MaskedWhereCells ==
    (qcrefl_grid # NoArray) =>
        \A p \in Idx(refl_grid.shape) :
            /\ MaskAt(p) => qcrefl_grid.mask[p]
            /\ ~MaskAt(p) => /\ qcrefl_grid.data[p] = refl_grid.data[p]
                             /\ qcrefl_grid.mask[p] = refl_grid.mask[p]

\* one cell was masked away and another kept its value
C4_Witness ==
    /\ qcrefl_grid # NoArray
    /\ \E p, q \in Idx(refl_grid.shape) :
        /\ MaskAt(p) /\ HasValue(refl_grid, p) /\ qcrefl_grid.mask[p]
        /\ ~MaskAt(q) /\ HasValue(qcrefl_grid, q)
        /\ qcrefl_grid.data[q] = refl_grid.data[q]

\* C5: given a mask of another shape than the reflectivity grid, line 110
\* fails with a shape error and assigns no masked grid.
C5_InconsistentShapeRaises ==
    [][(pc = "applyMask" /\ notweather.shape # refl_grid.shape) =>
          (pc' = "failed" /\ err' = "IndexError" /\ qcrefl_grid' = NoArray)]_vars

\* line 110 raised on a mask that flags no cell
C5_Witness ==
    /\ pc = "failed" /\ err = "IndexError"
    /\ notweather.shape # refl_grid.shape
    /\ \A p \in Idx(notweather.shape) : ~MaskAt(p)

\* C6: lines 104-110 leave their inputs as they were: the three grids, and
\* the mask given to masked_where, whether the statement raised or not.
C6_InputsUnchanged ==
    [][/\ pc \in {"computeMask", "applyMask"} =>
            (refl_grid' = refl_grid /\ zdr_grid' = zdr_grid /\ rhohv_grid' = rhohv_grid)
       /\ pc = "applyMask" => notweather' = notweather]_vars

\* masking hid a cell of the result that still has its value in the input
C6_Witness ==
    /\ pc = "plot_qc"
    /\ \E p \in Idx(refl_grid.shape) : qcrefl_grid.mask[p] /\ HasValue(refl_grid, p)

\* C7: computing the mask again from the three grids, at any later point
\* of the script, yields the mask computed at line 107.
C7_RecomputedMaskIdentical ==
    (notweather # NoArray) =>
        notweather = logical_or(less(refl_grid, ReflThreshold),
                                logical_or(greater(abs(zdr_grid), ZdrThreshold),
                                           less(rhohv_grid, RhohvThreshold)))

\* the script has finished and the mask had flagged a cell with a value
C7_Witness ==
    /\ pc = "done"
    /\ \E p \in Idx(refl_grid.shape) : notweather.data[p] /\ HasValue(refl_grid, p)

\* C8: when masking succeeds the mask and the masked grid have the shape of
\* the reflectivity grid.
C8_ShapesPreserved ==
    (qcrefl_grid # NoArray) =>
        /\ notweather.shape = refl_grid.shape
        /\ qcrefl_grid.shape = refl_grid.shape
        /\ DOMAIN qcrefl_grid.data = Idx(refl_grid.shape)
        /\ DOMAIN qcrefl_grid.mask = Idx(refl_grid.shape)

\* masking succeeded on a grid of more than one ray and gate
C8_Witness ==
    /\ qcrefl_grid # NoArray /\ reflow # NoArray
    /\ refl_grid.shape[1] > 1 /\ refl_grid.shape[2] > 1

\* C9: a failure of the connection, the bucket, the key, the download or
\* the decoder ends the run with an exception; the masking statements are
\* reached only with a key, its downloaded archive and a decoded volume.
C9_FailuresNotSwallowed ==
    /\ (err # "none") <=> (pc = "failed")
    /\ s3key = "None" => pc \in {"download", "failed"}
    /\ localfile = "empty" => pc = "failed"
    /\ pc \in MaskingStages =>
        (s3key = "Key" /\ localfile = "archive" /\ radar \in Radars)

\* the key did not exist and the run ended at the download
C9_Witness == pc = "failed" /\ s3key = "None" /\ err = "AttributeError"

\* C10: a cell whose Zdr or RhoHV has no value has no value in the QC'ed
\* reflectivity, even when its reflectivity is 20 dBZ or more.
C10_LimitedToPolarimetricExtent ==
    (qcrefl_grid # NoArray /\ SameShape) =>
        \A p \in Idx(refl_grid.shape) :
            (~HasValue(zdr_grid, p) \/ ~HasValue(rhohv_grid, p)) => qcrefl_grid.mask[p]

\* a cell of 20 dBZ with no Zdr and a passing RhoHV is masked
C10_Witness ==
    /\ qcrefl_grid # NoArray /\ SameShape
    /\ \E p \in Idx(refl_grid.shape) :
        /\ HasValue(refl_grid, p) /\ refl_grid.data[p] >= ReflThreshold
        /\ ~HasValue(zdr_grid, p)
        /\ HasValue(rhohv_grid, p) /\ rhohv_grid.data[p] >= RhohvThreshold
        /\ qcrefl_grid.mask[p]

====
